---- MODULE Spec2Model ----
(***************************************************************************)
(* State-machine model of the HTTP mediation layer of the chat client:     *)
(* ApiAuthService (src/unnamed/part_000), ApiChatService                   *)
(* (src/src/services/implementations/ApiChatService.ts) and the shared     *)
(* TokenManager singleton they both use.                                   *)
(*                                                                         *)
(* Every service method is an async function.  A call runs synchronously   *)
(* up to `await fetch(...)`, is resumed when fetch settles, suspends again *)
(* at `await response.text()` or `await response.json()`, and then runs    *)
(* to its end.  Calls in flight interleave at these await points only.     *)
(*                                                                         *)
(* Encodings.  An optional value is a sequence of length 0 or 1: <<>> is   *)
(* null/undefined/absent, <<v>> is the value v.  A template string is the  *)
(* tuple of its pieces.                                                    *)
(***************************************************************************)
EXTENDS Integers, Sequences, FiniteSets, TLC

\* Number of calls that may be outstanding (issued, not yet handed back to
\* the caller) at the same time.
MaxCalls == 2

Calls == 1..MaxCalls

VARIABLES
    token,   \* TokenManager's stored credential: <<>> or <<string>>
    calls    \* calls[c]: the async call occupying slot c

vars == <<token, calls>>

----------------------------------------------------------------------------
(* The environment: what the server can answer.                            *)

\* Token strings a server may put into a {user, token} envelope.
TokenStrings == {"", "t1", "t2"}

\* HTTP statuses the server answers with.
Statuses == {200, 204, 401, 500}

\* JSON documents the server sends, by their text, with their parsed value.
Docs ==
    ("{user:{id:u1},token:t1}" :> [user |-> [id |-> "u1"], token |-> "t1"]) @@
    ("{user:{id:u1},token:t2}" :> [user |-> [id |-> "u1"], token |-> "t2"]) @@
    ("{user:{id:u1},token:}"   :> [user |-> [id |-> "u1"], token |-> ""]) @@
    ("{message:ok}"            :> [message |-> "ok"]) @@
    ("{id:u1}"                 :> [id |-> "u1"]) @@
    ("{id:c1}"                 :> [id |-> "c1"])

AuthOps == {"login", "register", "logout", "refreshToken", "getCurrentUser"}

ChatOps == {"getConversations", "getConversation", "createConversation",
            "getMessages", "sendMessage", "getExpertQueue",
            "claimConversation", "unclaimConversation", "getExpertProfile",
            "updateExpertProfile", "getExpertAssignmentHistory"}

StubOps == {"updateConversation", "deleteConversation", "markMessageAsRead"}

\* The well-typed JSON texts a server sends to an operation (its type
\* parameter T at the makeRequest call site).
GoodTexts(op) ==
    CASE op \in {"login", "register", "refreshToken"} ->
            {"{user:{id:u1},token:t1}", "{user:{id:u1},token:t2}",
             "{user:{id:u1},token:}"}
      [] op = "logout" -> {"{message:ok}"}
      [] op = "getCurrentUser" -> {"{id:u1}"}
      [] OTHER -> {"{id:c1}"}

\* Body texts that may come with a status: a 204 has no content, a 200 has a
\* JSON document or a text that is not JSON, an error status has a plain text.
BodyTexts(op, status) ==
    CASE status = 204 -> {""}
      [] status = 200 -> GoodTexts(op) \cup {"<html>"}
      [] status = 401 -> {"Unauthorized"}
      [] OTHER -> {"Internal Server Error"}

----------------------------------------------------------------------------
(* fetch / Response                                                        *)

\* Response.ok
Ok(status) == status >= 200 /\ status <= 299

\* Response.json(): the parsed value, or a SyntaxError for a text that is not
\* a JSON document (the empty text included).
JsonParse(text) ==
    IF text \in DOMAIN Docs
    THEN [ok |-> TRUE, val |-> <<Docs[text]>>]
    ELSE [ok |-> FALSE, val |-> <<>>]

\* The rejection of response.json() on an unparseable body.
SyntaxErr == [name |-> "SyntaxError", message |-> <<"Unexpected end of JSON input">>]

\* The rejection of fetch() itself: a network failure.
FetchErr == [name |-> "TypeError", message |-> <<"Failed to fetch">>]

----------------------------------------------------------------------------
(* TokenManager                                                            *)

SetToken(t) == <<t>>

ClearToken == <<>>

\* JavaScript truthiness of `token` (string | null): null and "" are falsy.
Truthy(tok) == tok # <<>> /\ tok[1] # ""

----------------------------------------------------------------------------
(* Outcomes                                                                *)

\* Outcome of makeRequest: a returned value or a thrown error.
Returned(v) == [ok |-> TRUE, val |-> <<v>>, err |-> <<>>]

Thrown(e) == [ok |-> FALSE, val |-> <<>>, err |-> <<e>>]

\* State of the promise a service method returned to its caller.
Pending == [kind |-> "pending", value |-> <<>>, error |-> <<>>]

Resolved(v) == [kind |-> "resolved", value |-> v, error |-> <<>>]

Rejected(e) == [kind |-> "rejected", value |-> <<>>, error |-> <<e>>]

----------------------------------------------------------------------------
(* ApiAuthService.makeRequest                                              *)

\* Variant: the auth executor sends an Authorization header.
AuthAuthorizationBearer == <<"Bearer ", "">>

\* The Authorization header of an auth request: the headers are Content-Type
\* and the caller's options.headers, which no auth method sets.
AuthAuthorization == <<>>

\* Variant: the body text is left out of the message.
AuthRequestFailedNoText(status, text) ==
    [name |-> "Error", message |-> <<"Request failed with status ", status>>]

\* `throw new Error(`Request failed with status ${response.status}: ${text}`)`
AuthRequestFailed(status, text) ==
    [name |-> "Error", message |-> <<"Request failed with status ", status, ": ", text>>]

\* `const text = await response.text(); throw ...` on a response that is not ok.
AuthNotOk(status, text) == Thrown(AuthRequestFailed(status, text))

\* Variant: a body that does not parse is taken for an empty envelope.
AuthParseLenient(text) ==
    IF JsonParse(text).ok
    THEN Returned(JsonParse(text).val[1])
    ELSE Returned([user |-> [id |-> ""], token |-> ""])

\* `const data: T = await response.json(); return data`
AuthParse(text) ==
    IF JsonParse(text).ok THEN Returned(JsonParse(text).val[1]) ELSE Thrown(SyntaxErr)

----------------------------------------------------------------------------
(* ApiChatService.makeRequest                                              *)

\* Variant: the header is built whether or not there is a token.
ChatAuthorizationAlways(tok) ==
    IF tok # <<>> THEN <<"Bearer ", tok[1]>> ELSE <<"Bearer ", "">>

\* The Authorization header of a chat request, from the token read at the
\* time the request is built: omitted (<<>>) unless the token is truthy.
ChatAuthorization(tok) ==
    IF Truthy(tok) THEN <<"Bearer ", tok[1]>> ELSE <<>>

ChatRequestFailed(status, text) ==
    [name |-> "Error", message |-> <<"Request failed with status ", status, ": ", text>>]

ChatNotOk(status, text) == Thrown(ChatRequestFailed(status, text))

ChatParse(text) ==
    IF JsonParse(text).ok THEN Returned(JsonParse(text).val[1]) ELSE Thrown(SyntaxErr)

----------------------------------------------------------------------------
(* The part of each service method that runs after `await makeRequest`:    *)
(* from the stored token `tok` and makeRequest's outcome `mr`, the token    *)
(* it leaves and the way the method's promise settles.                      *)

\* Variant: the token of the response is not stored.
LoginDoneNoStore(tok, mr) ==
    IF mr.ok
    THEN [token |-> tok, out |-> Resolved(<<mr.val[1].user>>)]
    ELSE [token |-> tok, out |-> Rejected(mr.err[1])]

\* Variant: a failed login clears the stored token.
LoginDoneClearOnFail(tok, mr) ==
    IF mr.ok
    THEN [token |-> SetToken(mr.val[1].token), out |-> Resolved(<<mr.val[1].user>>)]
    ELSE [token |-> ClearToken, out |-> Rejected(mr.err[1])]

\* Variant: the token of the response is stored only when none is stored.
LoginDoneKeepExisting(tok, mr) ==
    IF mr.ok
    THEN [token |-> IF tok = <<>> THEN SetToken(mr.val[1].token) ELSE tok,
          out |-> Resolved(<<mr.val[1].user>>)]
    ELSE [token |-> tok, out |-> Rejected(mr.err[1])]

LoginDone(tok, mr) ==
    IF mr.ok
    THEN [token |-> SetToken(mr.val[1].token), out |-> Resolved(<<mr.val[1].user>>)]
    ELSE [token |-> tok, out |-> Rejected(mr.err[1])]

\* Variant: a failed register clears the stored token.
RegisterDoneClearOnFail(tok, mr) ==
    IF mr.ok
    THEN [token |-> SetToken(mr.val[1].token), out |-> Resolved(<<mr.val[1].user>>)]
    ELSE [token |-> ClearToken, out |-> Rejected(mr.err[1])]

RegisterDone(tok, mr) ==
    IF mr.ok
    THEN [token |-> SetToken(mr.val[1].token), out |-> Resolved(<<mr.val[1].user>>)]
    ELSE [token |-> tok, out |-> Rejected(mr.err[1])]

\* Variant: the catch block clears the token and throws the error again.
LogoutDoneRethrow(tok, mr) ==
    IF mr.ok
    THEN [token |-> tok, out |-> Resolved(<<>>)]
    ELSE [token |-> ClearToken, out |-> Rejected(mr.err[1])]

\* try { await makeRequest } catch { clearToken() }: the token is cleared in
\* the catch block only.
LogoutDone(tok, mr) ==
    IF mr.ok
    THEN [token |-> tok, out |-> Resolved(<<>>)]
    ELSE [token |-> ClearToken, out |-> Resolved(<<>>)]

\* Variant: a failed refresh clears the stored token.
RefreshTokenDoneClearOnFail(tok, mr) ==
    IF mr.ok
    THEN [token |-> SetToken(mr.val[1].token), out |-> Resolved(<<mr.val[1].user>>)]
    ELSE [token |-> ClearToken, out |-> Rejected(mr.err[1])]

RefreshTokenDone(tok, mr) ==
    IF mr.ok
    THEN [token |-> SetToken(mr.val[1].token), out |-> Resolved(<<mr.val[1].user>>)]
    ELSE [token |-> tok, out |-> Rejected(mr.err[1])]

\* Variant: the catch block does not clear the token.
GetCurrentUserDoneKeep(tok, mr) ==
    IF mr.ok
    THEN [token |-> tok, out |-> Resolved(mr.val)]
    ELSE [token |-> tok, out |-> Resolved(<<>>)]

\* Variant: the token is cleared on success too.
GetCurrentUserDoneClearAlways(tok, mr) ==
    IF mr.ok
    THEN [token |-> ClearToken, out |-> Resolved(mr.val)]
    ELSE [token |-> ClearToken, out |-> Resolved(<<>>)]

\* Variant: the token is cleared only on an "unauthenticated" (401) answer.
GetCurrentUserDoneOnly401(tok, mr) ==
    IF mr.ok
    THEN [token |-> tok, out |-> Resolved(mr.val)]
    ELSE [token |-> IF mr.err[1] = AuthRequestFailed(401, "Unauthorized")
                    THEN ClearToken ELSE tok,
          out |-> Resolved(<<>>)]

GetCurrentUserDone(tok, mr) ==
    IF mr.ok
    THEN [token |-> tok, out |-> Resolved(mr.val)]
    ELSE [token |-> ClearToken, out |-> Resolved(<<>>)]

\* Variant: a failed chat call clears the stored token.
ChatDoneClearOnFail(tok, mr) ==
    IF mr.ok
    THEN [token |-> tok, out |-> Resolved(mr.val)]
    ELSE [token |-> ClearToken, out |-> Rejected(mr.err[1])]

\* Variant: a chat method checks the stored token again when it resumes.
ChatDoneNeedsToken(tok, mr) ==
    IF mr.ok /\ tok # <<>>
    THEN [token |-> tok, out |-> Resolved(mr.val)]
    ELSE [token |-> tok,
          out |-> Rejected(IF mr.ok
                           THEN [name |-> "Error", message |-> <<"Not authenticated">>]
                           ELSE mr.err[1])]

\* Every chat method: `const response = await this.makeRequest(...); return response`
ChatDone(tok, mr) ==
    IF mr.ok
    THEN [token |-> tok, out |-> Resolved(mr.val)]
    ELSE [token |-> tok, out |-> Rejected(mr.err[1])]

\* `throw new Error('<name> method not implemented')`
NotImplemented(op) == [name |-> "Error", message |-> <<op, " method not implemented">>]

Done(op, tok, mr) ==
    CASE op = "login" -> LoginDone(tok, mr)
      [] op = "register" -> RegisterDone(tok, mr)
      [] op = "logout" -> LogoutDone(tok, mr)
      [] op = "refreshToken" -> RefreshTokenDone(tok, mr)
      [] op = "getCurrentUser" -> GetCurrentUserDone(tok, mr)
      [] OTHER -> ChatDone(tok, mr)

NotOk(op, status, text) ==
    IF op \in AuthOps THEN AuthNotOk(status, text) ELSE ChatNotOk(status, text)

Parse(op, text) ==
    IF op \in AuthOps THEN AuthParse(text) ELSE ChatParse(text)

----------------------------------------------------------------------------
(* State                                                                   *)

\* A free slot: no call.
IdleCall ==
    [op |-> "none", pc |-> "idle", auth |-> <<>>, sent |-> 0,
     status |-> <<>>, body |-> <<>>, thrown |-> <<>>, out |-> Pending]

\* TokenManager holds no token at process start; no call has been made.
Init ==
    /\ token = <<>>
    /\ calls = [c \in Calls |-> IdleCall]

\* The synchronous prefix of a method up to `await fetch(url, fetchOptions)`:
\* the request leaves with the Authorization header `auth`.
Issue(c, op, auth) ==
    /\ calls[c].pc = "idle"
    /\ calls' = [calls EXCEPT ![c] =
                    [IdleCall EXCEPT !.op = op, !.pc = "fetch", !.auth = auth, !.sent = 1]]
    /\ UNCHANGED token

\* Variant: a failed request is sent once more.
FinishRetry(c, body, mr) ==
    IF ~mr.ok /\ calls[c].sent < 2
    THEN /\ calls' = [calls EXCEPT ![c].pc = "fetch", ![c].status = <<>>,
                                   ![c].sent = calls[c].sent + 1]
         /\ UNCHANGED token
    ELSE /\ token' = Done(calls[c].op, token, mr).token
         /\ calls' = [calls EXCEPT ![c].pc = "done", ![c].body = body,
                                   ![c].thrown = mr.err,
                                   ![c].out = Done(calls[c].op, token, mr).out]

\* The method runs to its end: makeRequest's outcome mr, having read `body`.
Finish(c, body, mr) ==
    /\ token' = Done(calls[c].op, token, mr).token
    /\ calls' = [calls EXCEPT ![c].pc = "done", ![c].body = body,
                              ![c].thrown = mr.err,
                              ![c].out = Done(calls[c].op, token, mr).out]

(* ApiAuthService *)
Login(c) == Issue(c, "login", AuthAuthorization)

Register(c) == Issue(c, "register", AuthAuthorization)

Logout(c) == Issue(c, "logout", AuthAuthorization)

RefreshToken(c) == Issue(c, "refreshToken", AuthAuthorization)

GetCurrentUser(c) == Issue(c, "getCurrentUser", AuthAuthorization)

(* ApiChatService *)
GetConversations(c) == Issue(c, "getConversations", ChatAuthorization(token))

GetConversation(c) == Issue(c, "getConversation", ChatAuthorization(token))

CreateConversation(c) == Issue(c, "createConversation", ChatAuthorization(token))

GetMessages(c) == Issue(c, "getMessages", ChatAuthorization(token))

SendMessage(c) == Issue(c, "sendMessage", ChatAuthorization(token))

GetExpertQueue(c) == Issue(c, "getExpertQueue", ChatAuthorization(token))

ClaimConversation(c) == Issue(c, "claimConversation", ChatAuthorization(token))

UnclaimConversation(c) == Issue(c, "unclaimConversation", ChatAuthorization(token))

GetExpertProfile(c) == Issue(c, "getExpertProfile", ChatAuthorization(token))

UpdateExpertProfile(c) == Issue(c, "updateExpertProfile", ChatAuthorization(token))

GetExpertAssignmentHistory(c) ==
    Issue(c, "getExpertAssignmentHistory", ChatAuthorization(token))

\* A placeholder method throws before any request: its promise is rejected
\* at once.
Stub(c, op) ==
    /\ calls[c].pc = "idle"
    /\ calls' = [calls EXCEPT ![c] =
                    [IdleCall EXCEPT !.op = op, !.pc = "done",
                                     !.thrown = <<NotImplemented(op)>>,
                                     !.out = Rejected(NotImplemented(op))]]
    /\ UNCHANGED token

UpdateConversation(c) == Stub(c, "updateConversation")

DeleteConversation(c) == Stub(c, "deleteConversation")

MarkMessageAsRead(c) == Stub(c, "markMessageAsRead")

(* The network *)

\* fetch resolves with a response: makeRequest branches on response.ok and
\* suspends again reading the body.
FetchResolve(c) ==
    /\ calls[c].pc = "fetch"
    /\ \E status \in Statuses :
          calls' = [calls EXCEPT ![c].pc = IF Ok(status) THEN "json" ELSE "text",
                                 ![c].status = <<status>>]
    /\ UNCHANGED token

\* fetch rejects (transport error): the rejection leaves makeRequest as it is.
FetchReject(c) ==
    /\ calls[c].pc = "fetch"
    /\ Finish(c, <<>>, Thrown(FetchErr))

\* response.text() delivers the body of a response that is not ok.
ReadText(c) ==
    /\ calls[c].pc = "text"
    /\ \E text \in BodyTexts(calls[c].op, calls[c].status[1]) :
          Finish(c, <<text>>, NotOk(calls[c].op, calls[c].status[1], text))

\* response.json() settles on the body of an ok response.
ReadJson(c) ==
    /\ calls[c].pc = "json"
    /\ \E text \in BodyTexts(calls[c].op, calls[c].status[1]) :
          Finish(c, <<text>>, Parse(calls[c].op, text))

\* The caller has taken the settled promise; the slot is free again.
Return(c) ==
    /\ calls[c].pc = "done"
    /\ calls' = [calls EXCEPT ![c] = IdleCall]
    /\ UNCHANGED token

Next ==
    \E c \in Calls :
        \/ Login(c)
        \/ Register(c)
        \/ Logout(c)
        \/ RefreshToken(c)
        \/ GetCurrentUser(c)
        \/ GetConversations(c)
        \/ GetConversation(c)
        \/ CreateConversation(c)
        \/ GetMessages(c)
        \/ SendMessage(c)
        \/ GetExpertQueue(c)
        \/ ClaimConversation(c)
        \/ UnclaimConversation(c)
        \/ GetExpertProfile(c)
        \/ UpdateExpertProfile(c)
        \/ GetExpertAssignmentHistory(c)
        \/ UpdateConversation(c)
        \/ DeleteConversation(c)
        \/ MarkMessageAsRead(c)
        \/ FetchResolve(c)
        \/ FetchReject(c)
        \/ ReadText(c)
        \/ ReadJson(c)
        \/ Return(c)

Spec == Init /\ [][Next]_vars

----------------------------------------------------------------------------
(* ApiAuthService with the history of its outstanding calls.  The calls    *)
(* and the token are as above; each call also records which credential was  *)
(* stored when it was issued (seen), which other calls were on their way    *)
(* when it was issued (before) and which were still on their way when it    *)
(* completed (open).                                                        *)

InFlight(call) == call.pc \in {"fetch", "text", "json"}

IdleCallHist ==
    [op |-> "none", pc |-> "idle", auth |-> <<>>, sent |-> 0,
     status |-> <<>>, body |-> <<>>, thrown |-> <<>>, out |-> Pending,
     seen |-> <<>>, before |-> {}, open |-> {}]

InitHist ==
    /\ token = <<>>
    /\ calls = [c \in Calls |-> IdleCallHist]

\* An auth method up to `await fetch(url, fetchOptions)`.
IssueHist(c, op) ==
    /\ calls[c].pc = "idle"
    /\ calls' = [calls EXCEPT ![c] =
                    [IdleCallHist EXCEPT !.op = op, !.pc = "fetch",
                                         !.auth = AuthAuthorization, !.sent = 1,
                                         !.seen = token,
                                         !.before = {d \in Calls : InFlight(calls[d])}]]
    /\ UNCHANGED token

\* The method runs to its end: makeRequest's outcome mr, having read `body`.
FinishHist(c, body, mr) ==
    /\ token' = Done(calls[c].op, token, mr).token
    /\ calls' = [calls EXCEPT ![c].pc = "done", ![c].body = body,
                              ![c].thrown = mr.err,
                              ![c].out = Done(calls[c].op, token, mr).out,
                              ![c].open = {d \in Calls \ {c} : InFlight(calls[d])}]

LoginHist(c) == IssueHist(c, "login")

RegisterHist(c) == IssueHist(c, "register")

LogoutHist(c) == IssueHist(c, "logout")

RefreshTokenHist(c) == IssueHist(c, "refreshToken")

GetCurrentUserHist(c) == IssueHist(c, "getCurrentUser")

FetchResolveHist(c) ==
    /\ calls[c].pc = "fetch"
    /\ \E status \in Statuses :
          calls' = [calls EXCEPT ![c].pc = IF Ok(status) THEN "json" ELSE "text",
                                 ![c].status = <<status>>]
    /\ UNCHANGED token

FetchRejectHist(c) ==
    /\ calls[c].pc = "fetch"
    /\ FinishHist(c, <<>>, Thrown(FetchErr))

ReadTextHist(c) ==
    /\ calls[c].pc = "text"
    /\ \E text \in BodyTexts(calls[c].op, calls[c].status[1]) :
          FinishHist(c, <<text>>, NotOk(calls[c].op, calls[c].status[1], text))

ReadJsonHist(c) ==
    /\ calls[c].pc = "json"
    /\ \E text \in BodyTexts(calls[c].op, calls[c].status[1]) :
          FinishHist(c, <<text>>, Parse(calls[c].op, text))

\* The caller has taken the settled promise: the call leaves the history.
ReturnHist(c) ==
    /\ calls[c].pc = "done"
    /\ calls' = [d \in Calls |->
                    IF d = c THEN IdleCallHist
                    ELSE [calls[d] EXCEPT !.before = @ \ {c}, !.open = @ \ {c}]]
    /\ UNCHANGED token

NextHist ==
    \E c \in Calls :
        \/ LoginHist(c)
        \/ RegisterHist(c)
        \/ LogoutHist(c)
        \/ RefreshTokenHist(c)
        \/ GetCurrentUserHist(c)
        \/ FetchResolveHist(c)
        \/ FetchRejectHist(c)
        \/ ReadTextHist(c)
        \/ ReadJsonHist(c)
        \/ ReturnHist(c)

SpecHist == InitHist /\ [][NextHist]_vars

----------------------------------------------------------------------------
(* Properties                                                              *)

\* In this step, call c is issued: its request leaves.
Issues(c) == calls[c].pc = "idle" /\ calls'[c].pc = "fetch"

\* In this step, call c runs to its end and its promise settles.
Completes(c) == calls[c].pc \in {"fetch", "text", "json"} /\ calls'[c].pc = "done"

\* The network call of a finished call rejected (transport error).
TransportError(call) == call.sent = 1 /\ call.status = <<>>

\* The network call of a finished call was answered with a non-success response.
NonSuccess(call) == call.status # <<>> /\ ~Ok(call.status[1])

\* The network call of a finished call was answered with a success response
\* whose body is a JSON document.
Success(call) ==
    call.status # <<>> /\ Ok(call.status[1]) /\ call.body[1] \in DOMAIN Docs

\* Error e is of the kind the executors construct: an Error whose message is
\* "Request failed with status ...".
IsRequestFailedKind(e) ==
    e.name = "Error" /\ e.message[1] = "Request failed with status "

\* Error e is the "request failed" failure carrying status st and body text.
IsRequestFailed(e, st, text) ==
    /\ e.name = "Error"
    /\ Len(e.message) = 4
    /\ e.message[1] = "Request failed with status "
    /\ e.message[2] = st
    /\ e.message[4] = text

\* C1 (as claimed): when a logout() call completes, whatever the outcome of
\* its network call, the stored credential is absent.
C1_LogoutAlwaysClears ==
    [][\A c \in Calls :
          (Completes(c) /\ calls[c].op = "logout") => token' = <<>>]_vars

\* C2: when a login or register call whose response is a success completes,
\* the stored credential is exactly the token of that response, whatever was
\* stored before, and the call resolves with the response's user.
C2_LoginRegisterStoreToken ==
    [][\A c \in Calls :
          (Completes(c) /\ calls[c].op \in {"login", "register"} /\ Success(calls'[c]))
          => /\ token' = <<Docs[calls'[c].body[1]].token>>
             /\ calls'[c].out = Resolved(<<Docs[calls'[c].body[1]].user>>)]_vars

\* A login has stored t2 over the t1 another login or register had stored.
C2_Witness ==
    \E c, d \in Calls :
        /\ calls[c].pc = "done" /\ calls[c].op = "login" /\ Success(calls[c])
        /\ Docs[calls[c].body[1]].token = "t2"
        /\ calls[d].pc = "done" /\ calls[d].op \in {"login", "register"}
        /\ Success(calls[d])
        /\ Docs[calls[d].body[1]].token = "t1"
        /\ token = <<"t2">>

\* C3: when a login or register call completes after a transport error or a
\* non-success response, its promise is rejected with the executor's failure
\* and the step leaves the stored credential as it was.
C3_FailedLoginRegisterKeepToken ==
    [][\A c \in Calls :
          (/\ Completes(c)
           /\ calls[c].op \in {"login", "register"}
           /\ (TransportError(calls'[c]) \/ NonSuccess(calls'[c])))
          => /\ token' = token
             /\ calls'[c].out.kind = "rejected"
             /\ calls'[c].thrown # <<>>
             /\ calls'[c].out.error = calls'[c].thrown]_vars

\* A register has failed with a 401 and a login on a transport error while a
\* credential is stored.
C3_Witness ==
    \E c, d \in Calls :
        /\ calls[c].pc = "done" /\ calls[c].op = "register"
        /\ calls[c].status = <<401>> /\ calls[c].out.kind = "rejected"
        /\ calls[d].pc = "done" /\ calls[d].op = "login"
        /\ TransportError(calls[d]) /\ calls[d].out.kind = "rejected"
        /\ token = <<"t1">>

\* C4: a getCurrentUser call always resolves: with the parsed body of a
\* success response, and otherwise (non-success response of any status,
\* transport error, unparseable body) with null, the stored credential being
\* absent when it does.
C4_GetCurrentUserNeverFails ==
    [][\A c \in Calls :
          (Completes(c) /\ calls[c].op = "getCurrentUser")
          => /\ calls'[c].out.kind = "resolved"
             /\ IF Success(calls'[c])
                THEN calls'[c].out.value = <<Docs[calls'[c].body[1]]>>
                ELSE calls'[c].out.value = <<>> /\ token' = <<>>]_vars

\* A getCurrentUser answered with a 500 has resolved with null after a login
\* had stored a credential, and the credential is gone.
C4_Witness ==
    \E c, d \in Calls :
        /\ calls[c].pc = "done" /\ calls[c].op = "getCurrentUser"
        /\ calls[c].status = <<500>> /\ calls[c].out = Resolved(<<>>)
        /\ calls[d].pc = "done" /\ calls[d].op = "login" /\ Success(calls[d])
        /\ Docs[calls[d].body[1]].token = "t1"
        /\ token = <<>>

\* C5: when a refreshToken call completes, on a success response the stored
\* credential is the token of the response and the call resolves with its
\* user; on a failure the call is rejected with the executor's failure and
\* the stored credential is left as it was.
C5_RefreshToken ==
    [][\A c \in Calls :
          (Completes(c) /\ calls[c].op = "refreshToken")
          => IF Success(calls'[c])
             THEN /\ token' = <<Docs[calls'[c].body[1]].token>>
                  /\ calls'[c].out = Resolved(<<Docs[calls'[c].body[1]].user>>)
             ELSE /\ token' = token
                  /\ calls'[c].out.kind = "rejected"
                  /\ calls'[c].out.error = calls'[c].thrown]_vars

\* A refreshToken has stored t2, and a later refreshToken has failed with a
\* 401 leaving t2 in place.
C5_Witness ==
    \E c, d \in Calls :
        /\ calls[c].pc = "done" /\ calls[c].op = "refreshToken"
        /\ calls[c].status = <<401>> /\ calls[c].out.kind = "rejected"
        /\ calls[d].pc = "done" /\ calls[d].op = "refreshToken" /\ Success(calls[d])
        /\ Docs[calls[d].body[1]].token = "t2"
        /\ token = <<"t2">>

\* C6 (as claimed): a chat request issued while a credential c is stored
\* carries Authorization: Bearer c, and one issued while none is stored
\* carries no Authorization header.
C6_BearerWheneverStored ==
    [][\A c \in Calls :
          (Issues(c) /\ calls'[c].op \in ChatOps)
          => calls'[c].auth =
                IF token # <<>> THEN <<"Bearer ", token[1]>> ELSE <<>>]_vars

\* C6 (amended): a chat request issued while a non-empty credential c is
\* stored carries Authorization: Bearer c; one issued while no credential, or
\* the empty string, is stored carries no Authorization header.
C6_BearerWhenNonEmpty ==
    [][\A c \in Calls :
          (Issues(c) /\ calls'[c].op \in ChatOps)
          => calls'[c].auth =
                IF token # <<>> /\ token[1] # ""
                THEN <<"Bearer ", token[1]>> ELSE <<>>]_vars

\* Two chat requests are on the network, one sent with Bearer t1 and one sent
\* without the header while the stored credential is the empty string.
C6_Witness ==
    \E c, d \in Calls :
        /\ calls[c].pc = "fetch" /\ calls[c].op \in ChatOps
        /\ calls[c].auth = <<"Bearer ", "t1">>
        /\ calls[d].pc = "fetch" /\ calls[d].op \in ChatOps
        /\ calls[d].auth = <<>>
        /\ token = <<"">>

\* The values TokenManager can hold: nothing, or one whole token string.
Credentials == {<<>>} \cup {<<t>> : t \in TokenStrings}

\* Identity status: Anonymous without a credential, Authenticated with one.
Status(tok) == IF tok = <<>> THEN "Anonymous" ELSE "Authenticated"

\* C7: the credential is absent initially; a step changes it to a present
\* value only by completing a login, register or refreshToken answered with a
\* success response, and to absent only by completing a logout or a failed
\* getCurrentUser; it is always absent or one whole token.
C7_CredentialLifecycle ==
    /\ token = <<>>
    /\ [](token \in Credentials)
    /\ [][token' # token =>
            \E c \in Calls :
               /\ Completes(c)
               /\ IF Status(token') = "Authenticated"
                  THEN /\ calls[c].op \in {"login", "register", "refreshToken"}
                       /\ Success(calls'[c])
                  ELSE \/ calls[c].op = "logout"
                       \/ calls[c].op = "getCurrentUser" /\ ~Success(calls'[c])]_vars

\* A credential t2 had been stored (a chat request carried it) and is absent
\* after a logout whose network call failed.
C7_Witness ==
    \E c, d \in Calls :
        /\ calls[c].pc = "done" /\ calls[c].op = "logout"
        /\ TransportError(calls[c])
        /\ calls[d].pc = "done" /\ calls[d].op \in ChatOps
        /\ calls[d].auth = <<"Bearer ", "t2">>
        /\ token = <<>>

\* C8: no step of a chat call (issue, response, completion, hand-back; the
\* placeholder methods included) changes the stored credential, and a chat
\* call answered with HTTP 401 is rejected with the failure whose message
\* carries the status 401.
C8_ChatLeavesCredential ==
    [][\A c \in Calls :
          (/\ calls'[c] # calls[c]
           /\ (calls[c].op \in ChatOps \cup StubOps \/ calls'[c].op \in ChatOps \cup StubOps))
          => /\ token' = token
             /\ (Completes(c) /\ calls'[c].status = <<401>>)
                => /\ calls'[c].out.kind = "rejected"
                   /\ IsRequestFailed(calls'[c].out.error[1], 401,
                                      calls'[c].body[1])]_vars

\* getConversations, sent with Bearer t1, has failed with a 401 and the
\* credential t1 is still stored.
C8_Witness ==
    \E c \in Calls :
        /\ calls[c].pc = "done" /\ calls[c].op = "getConversations"
        /\ calls[c].auth = <<"Bearer ", "t1">>
        /\ calls[c].status = <<401>> /\ calls[c].out.kind = "rejected"
        /\ token = <<"t1">>

\* C9 (as claimed): every failure of an executor call, transport error or
\* non-success response, is of the one "request failed" kind, and carries the
\* numeric status and the raw body text of the response when there is one.
C9_OneFailureKind ==
    \A c \in Calls :
        (calls[c].pc = "done" /\ (TransportError(calls[c]) \/ NonSuccess(calls[c])))
        => /\ calls[c].thrown # <<>>
           /\ IsRequestFailedKind(calls[c].thrown[1])
           /\ NonSuccess(calls[c]) =>
                 IsRequestFailed(calls[c].thrown[1], calls[c].status[1],
                                 calls[c].body[1])

\* C9 (amended): a non-success response surfaces as the "request failed"
\* failure carrying the numeric status and the raw body text; a transport
\* error surfaces as the rejection of the network call itself, which is of
\* another kind and carries neither.
C9_FailureKinds ==
    \A c \in Calls :
        calls[c].pc = "done" =>
            /\ NonSuccess(calls[c]) =>
                  /\ calls[c].thrown # <<>>
                  /\ IsRequestFailed(calls[c].thrown[1], calls[c].status[1],
                                     calls[c].body[1])
            /\ TransportError(calls[c]) =>
                  /\ calls[c].thrown = <<FetchErr>>
                  /\ calls[c].body = <<>>
                  /\ ~IsRequestFailedKind(calls[c].thrown[1])

\* An auth call has failed on a non-success response and a chat call on a
\* transport error.
C9_Witness ==
    \E c, d \in Calls :
        /\ calls[c].pc = "done" /\ calls[c].op \in AuthOps
        /\ calls[c].status = <<500>>
        /\ calls[d].pc = "done" /\ calls[d].op \in ChatOps
        /\ TransportError(calls[d])

\* C10 (as claimed): claimConversation and unclaimConversation answered with
\* a success response that has an empty body resolve with no value.
C10_EmptyBodyResolves ==
    \A c \in Calls :
        (/\ calls[c].pc = "done"
         /\ calls[c].op \in {"claimConversation", "unclaimConversation"}
         /\ calls[c].status # <<>> /\ Ok(calls[c].status[1])
         /\ calls[c].body = <<"">>)
        => calls[c].out = Resolved(<<>>)

\* C11: a logout call always resolves, with no value, whatever the outcome of
\* its network call (success, non-success response, transport error).
C11_LogoutNeverFails ==
    [][\A c \in Calls :
          (Completes(c) /\ calls[c].op = "logout")
          => calls'[c].out = Resolved(<<>>)]_vars

\* One logout has resolved after a transport error and another after a 500.
C11_Witness ==
    \E c, d \in Calls :
        /\ calls[c].pc = "done" /\ calls[c].op = "logout"
        /\ TransportError(calls[c]) /\ calls[c].out = Resolved(<<>>)
        /\ calls[d].pc = "done" /\ calls[d].op = "logout"
        /\ calls[d].status = <<500>> /\ calls[d].out = Resolved(<<>>)

\* C13: every request an auth method issues leaves without an Authorization
\* header, whatever credential is stored when it is issued.
C13_AuthSendsNoAuthorization ==
    [][\A c \in Calls :
          (Issues(c) /\ calls'[c].op \in AuthOps) => calls'[c].auth = <<>>]_vars

\* An auth request is on the network without the header while t1 is stored
\* and a chat request issued under the same credential carries it.
C13_Witness ==
    \E c, d \in Calls :
        /\ calls[c].pc = "fetch" /\ calls[c].op = "refreshToken"
        /\ calls[c].auth = <<>>
        /\ calls[d].pc = "fetch" /\ calls[d].op \in ChatOps
        /\ calls[d].auth = <<"Bearer ", "t1">>
        /\ token = <<"t1">>

\* C14: a call sends at most one request: once its request has left, no step
\* sends another, and a failure ends the call; a placeholder method is
\* rejected at once with its "not implemented" message, having sent no
\* request and leaving the credential unchanged.
C14_OneRequestNoRetry ==
    [][\A c \in Calls :
          /\ calls'[c].sent <= 1
          /\ calls[c].pc \in {"fetch", "text", "json"}
             => /\ calls'[c].sent = calls[c].sent
                /\ calls'[c].pc # "fetch" \/ calls[c].pc = "fetch"
                /\ calls'[c].pc \in {"fetch", "text", "json", "done"}
          /\ (calls[c].pc = "idle" /\ calls'[c].op \in StubOps)
             => /\ calls'[c].pc = "done"
                /\ calls'[c].sent = 0
                /\ calls'[c].out =
                      Rejected([name |-> "Error",
                                message |-> <<calls'[c].op, " method not implemented">>])
                /\ token' = token]_vars

\* deleteConversation has been rejected without a request while a credential
\* is stored, and a login that failed with a 500 has sent one request.
C14_Witness ==
    \E c, d \in Calls :
        /\ calls[c].pc = "done" /\ calls[c].op = "deleteConversation"
        /\ calls[c].sent = 0 /\ calls[c].out.kind = "rejected"
        /\ calls[d].pc = "done" /\ calls[d].op = "login"
        /\ calls[d].status = <<500>> /\ calls[d].sent = 1
        /\ token = <<"t1">>

\* The way a chat call settles as its response alone decides it.
ChatOutcome(call) ==
    IF call.status = <<>> THEN Rejected(FetchErr)
    ELSE IF ~Ok(call.status[1])
         THEN Rejected([name |-> "Error",
                        message |-> <<"Request failed with status ", call.status[1],
                                      ": ", call.body[1]>>])
    ELSE IF call.body[1] \in DOMAIN Docs THEN Resolved(<<Docs[call.body[1]]>>)
    ELSE Rejected(SyntaxErr)

\* C15: the Authorization header of a chat request is the one built from the
\* credential stored when it was issued; no later step changes it while the
\* call is outstanding, and the call settles as its response decides,
\* whatever the credential has become meanwhile.
C15_HeaderFixedAtIssue ==
    [][\A c \in Calls :
          /\ (Issues(c) /\ calls'[c].op \in ChatOps)
             => calls'[c].auth = ChatAuthorization(token)
          /\ (calls[c].op \in ChatOps /\ calls'[c].pc # "idle")
             => calls'[c].auth = calls[c].auth
          /\ (Completes(c) /\ calls[c].op \in ChatOps)
             => calls'[c].out = ChatOutcome(calls'[c])]_vars

\* A chat call sent with Bearer t1 is still outstanding, its success response
\* being read, and a logout whose network call failed has cleared the
\* credential since it was issued.
C15_Witness ==
    \E c, d \in Calls :
        /\ calls[c].pc = "json" /\ calls[c].op \in ChatOps
        /\ calls[c].auth = <<"Bearer ", "t1">>
        /\ calls[d].pc = "done" /\ calls[d].op = "logout"
        /\ NonSuccess(calls[d])
        /\ token = <<>>

\* C17: a getCurrentUser call answered with a success response leaves the
\* stored credential as it was and resolves with the parsed body.
C17_GetCurrentUserSuccessKeepsToken ==
    [][\A c \in Calls :
          (Completes(c) /\ calls[c].op = "getCurrentUser" /\ Success(calls'[c]))
          => /\ token' = token
             /\ calls'[c].out = Resolved(<<Docs[calls'[c].body[1]]>>)]_vars

\* Two getCurrentUser calls have succeeded and the credential t2 is still
\* stored.
C17_Witness ==
    \E c, d \in Calls :
        /\ c # d
        /\ calls[c].pc = "done" /\ calls[c].op = "getCurrentUser"
        /\ Success(calls[c]) /\ calls[c].out = Resolved(<<[id |-> "u1"]>>)
        /\ calls[d].pc = "done" /\ calls[d].op = "getCurrentUser"
        /\ Success(calls[d])
        /\ token = <<"t2">>

\* A finished call was answered with a success response whose body is not a
\* JSON document.
Unparseable(call) ==
    call.status # <<>> /\ Ok(call.status[1]) /\ call.body[1] \notin DOMAIN Docs

\* C18: on a success response whose body does not parse, login, register and
\* refreshToken are rejected with the parse error and leave the credential
\* as it was; getCurrentUser clears the credential and resolves with null.
C18_UnparseableSuccessBody ==
    [][\A c \in Calls :
          (Completes(c) /\ Unparseable(calls'[c]))
          => /\ calls[c].op \in {"login", "register", "refreshToken"}
                => /\ token' = token
                   /\ calls'[c].out = Rejected(SyntaxErr)
             /\ calls[c].op = "getCurrentUser"
                => /\ token' = <<>>
                   /\ calls'[c].out = Resolved(<<>>)]_vars

\* A register answered 200 with a text that is not JSON has been rejected
\* and t1 is still stored; a getCurrentUser is reading such a body.
C18_Witness ==
    \E c, d \in Calls :
        /\ calls[c].pc = "done" /\ calls[c].op = "register"
        /\ calls[c].status = <<200>> /\ calls[c].body = <<"<html>">>
        /\ calls[c].out = Rejected(SyntaxErr)
        /\ calls[d].pc = "json" /\ calls[d].op = "getCurrentUser"
        /\ token = <<"t1">>

\* The auth methods that write the credential on success.
Writers == {"login", "register", "refreshToken"}

\* Calls c and d were in flight at the same time.
Raced(c, d) == c \in calls[d].before \/ d \in calls[c].before

\* Every slot holds a finished credential-writing call, and all of them were
\* in flight at once.
RaceOver ==
    /\ Cardinality(Calls) >= 2
    /\ \A c \in Calls : calls[c].pc = "done" /\ calls[c].op \in Writers
    /\ \A c, d \in Calls : c # d => Raced(c, d)

\* C12: when credential-writing calls that were in flight at once have all
\* completed, the stored credential is the token of the successful call that
\* completed last (every other successful one completed while it was still
\* on its way), whichever was issued first.
C12_LastWriterWins ==
    RaceOver =>
        \A c \in Calls :
            (/\ Success(calls[c])
             /\ \A d \in Calls \ {c} : Success(calls[d]) => c \in calls[d].open)
            => token = <<Docs[calls[c].body[1]].token>>

\* A refreshToken was issued first and answered t1, a login was issued while
\* it was on its way and answered t2; the login completed first, the
\* refreshToken last, and t1 is stored.
C12_Witness ==
    \E c, d \in Calls :
        /\ RaceOver
        /\ calls[c].op = "refreshToken" /\ Success(calls[c])
        /\ Docs[calls[c].body[1]].token = "t1"
        /\ calls[d].op = "login" /\ Success(calls[d])
        /\ Docs[calls[d].body[1]].token = "t2"
        /\ c \in calls[d].before
        /\ c \in calls[d].open
        /\ token = <<"t1">>

\* C16: a getCurrentUser call that fails clears the credential stored when
\* its failure is handled, also when that is not the credential stored when
\* it was issued: after a login, register or refreshToken has succeeded while
\* it was in flight, the credential just written is removed.
C16_FailedGetCurrentUserClearsCurrent ==
    [][\A c \in Calls :
          (Completes(c) /\ calls[c].op = "getCurrentUser" /\ ~Success(calls'[c]))
          => /\ token' = <<>>
             /\ Status(token') = "Anonymous"]_vars

\* A getCurrentUser issued while no credential was stored has failed with a
\* 500 after a login, completing while it was in flight, had stored t1: the
\* credential is absent.
C16_Witness ==
    \E c, d \in Calls :
        /\ calls[c].pc = "done" /\ calls[c].op = "getCurrentUser"
        /\ calls[c].status = <<500>> /\ calls[c].seen = <<>>
        /\ calls[d].pc = "done" /\ calls[d].op = "login" /\ Success(calls[d])
        /\ Docs[calls[d].body[1]].token = "t1"
        /\ calls[d].seen = <<>>
        /\ c \in calls[d].open
        /\ token = <<>>

====
